---- MODULE Spec2Model ----
(***************************************************************************)
(* Model of src/subsample_undistorted.py: shot grouping, stride/offset     *)
(* shot selection, image copy and the filter of COLMAP's images.txt.       *)
(*                                                                         *)
(* A string is a sequence of one-character strings.  A line of a text file *)
(* is a record [hash, toks]: hash says that the line's first character is  *)
(* the comment marker '#', toks are its whitespace-separated fields (what  *)
(* line.strip().split() returns).  Lines are written whole, so the amount  *)
(* of whitespace between fields is not part of the model.                  *)
(***************************************************************************)
EXTENDS Integers, Sequences, FiniteSets, TLC

VARIABLES
    pc,                     \* position of the running function
    filename, ret,          \* get_shot_number: argument and return value
    lines, selected_images, \* filter_images_txt: fin.readlines(), retained names
    fs,                     \* filter_images_txt: locals i, kept, and what fout holds
    keep_every, offset,     \* main: args.keep_every, args.offset
    image_files,            \* main: find_images(images_dir), as paths relative to images_dir
    shots, selected_shots,  \* main: group_by_shot(...), sorted_shots[offset::keep_every]
    selected_images_rel, selected_images_names,
    copy_idx,               \* main: position of the copy loop in sorted(selected_images_rel)
    out_dirs, out_images,   \* output: directories created, images copied
    sparse_files, out_sparse, \* source sparse directory listing, files copied to output sparse
    exit                    \* how the process ended: "running", "ok", or the error

vars == <<pc, filename, ret, lines, selected_images, fs, keep_every, offset,
          image_files, shots, selected_shots, selected_images_rel,
          selected_images_names, copy_idx, out_dirs, out_images, sparse_files,
          out_sparse, exit>>

shotVars == <<filename, ret>>
filterVars == <<lines, selected_images, fs>>
mainVars == <<keep_every, offset, image_files, shots, selected_shots,
              selected_images_rel, selected_images_names, copy_idx, out_dirs,
              out_images, sparse_files, out_sparse, exit>>

(***************************************************************************)
(* Bounds of the model.                                                    *)
(***************************************************************************)
MaxNameLen == 5     \* get_shot_number: longest enumerated file name
MaxLines == 5       \* filter_images_txt: longest enumerated source file
MaxStride == 3      \* main: largest stride and offset tried (smallest is -1)
MaxEntries == 2     \* main: most items (comment or entry) of the pose file

(***************************************************************************)
(* Strings.                                                                *)
(***************************************************************************)
Range(s) == {s[k] : k \in DOMAIN s}

\* str.rfind(c), 1-based; 0 when c does not occur
RFind(s, c) ==
    LET at == {k \in DOMAIN s : s[k] = c}
    IN IF at = {} THEN 0 ELSE CHOOSE k \in at : \A j \in at : j <= k

EndsWith(s, suffix) ==
    /\ Len(suffix) <= Len(s)
    /\ SubSeq(s, Len(s) - Len(suffix) + 1, Len(s)) = suffix

\* code point of the characters the model uses
Ord(c) ==
    CASE c = "#" -> 35 [] c = "." -> 46 [] c = "/" -> 47
      [] c = "0" -> 48 [] c = "1" -> 49 [] c = "2" -> 50 [] c = "3" -> 51
      [] c = "4" -> 52 [] c = "9" -> 57
      [] c = "E" -> 69 [] c = "G" -> 71 [] c = "I" -> 73 [] c = "J" -> 74
      [] c = "M" -> 77 [] c = "N" -> 78 [] c = "P" -> 80
      [] c = "_" -> 95 [] c = "a" -> 97 [] c = "e" -> 101 [] c = "g" -> 103
      [] c = "j" -> 106 [] c = "n" -> 110 [] c = "p" -> 112 [] c = "s" -> 115
      [] c = "t" -> 116 [] c = "x" -> 120
      [] OTHER -> 0

\* Python's str < str: by code point, a proper prefix first
StrLess(a, b) ==
    \E k \in 1..(Len(b)) :
        /\ k <= Len(a) + 1
        /\ \A j \in 1..(k - 1) : a[j] = b[j]
        /\ (k = Len(a) + 1 \/ Ord(a[k]) < Ord(b[k]))

\* sorted(): insertion of x into the sorted list s
RECURSIVE SortedInsert(_, _)
SortedInsert(x, s) ==
    IF s = <<>> THEN <<x>>
    ELSE IF StrLess(x, Head(s)) THEN <<x>> \o s
    ELSE <<Head(s)>> \o SortedInsert(x, Tail(s))

RECURSIVE InsertionSort(_)
InsertionSort(s) ==
    IF s = <<>> THEN <<>> ELSE SortedInsert(Head(s), InsertionSort(Tail(s)))

RECURSIVE SetToSeq(_)
SetToSeq(S) ==
    IF S = {} THEN <<>>
    ELSE LET x == CHOOSE y \in S : TRUE IN <<x>> \o SetToSeq(S \ {x})

\* sorted(iterable of str)
SortedKeysUnsorted(s) == s
Sorted(s) == InsertionSort(s)

(***************************************************************************)
(* get_shot_number                                                         *)
(***************************************************************************)
\* os.path.basename
Basename(p) == SubSeq(p, RFind(p, "/") + 1, Len(p))

\* os.path.splitext(p)[0]: the extension starts at the last dot, unless only
\* dots precede it in the file name
SplitextRoot(p) ==
    LET sepIndex == RFind(p, "/")
        dotIndex == RFind(p, ".")
    IN IF /\ dotIndex > sepIndex
          /\ \E k \in (sepIndex + 1)..(dotIndex - 1) : p[k] # "."
       THEN SubSeq(p, 1, dotIndex - 1)
       ELSE p

\* s.rsplit('_', 1)[0]
RSplitHead(s) == SubSeq(s, 1, RFind(s, "_") - 1)

get_shot_number(fname) ==
    LET basename == Basename(fname)
        name_no_ext == SplitextRoot(basename)
    IN IF "_" \in Range(name_no_ext) THEN RSplitHead(name_no_ext)
       ELSE name_no_ext

IMG_0001_jpg == <<"I", "M", "G", "_", "0", "0", "0", "1", ".", "j", "p", "g">>
IMG_0001 == <<"I", "M", "G", "_", "0", "0", "0", "1">>
N000921_0_png == <<"0", "0", "0", "9", "2", "1", "_", "0", ".", "p", "n", "g">>

NameAlphabet == {"a", "0", "_", ".", "/"}

RECURSIVE StringsUpTo(_, _)
StringsUpTo(alphabet, n) ==
    IF n = 0 THEN {<<>>}
    ELSE LET shorter == StringsUpTo(alphabet, n - 1)
         IN shorter \cup {Append(s, c) : s \in {t \in shorter : Len(t) = n - 1},
                                         c \in alphabet}

ShotInputs == StringsUpTo(NameAlphabet, MaxNameLen) \cup {IMG_0001_jpg, N000921_0_png}

ShotIdle == filename = <<>> /\ ret = <<>>

FilterStart == [i |-> 0, kept |-> 0, fout |-> <<>>, heads |-> {}]

FilterIdle == lines = <<>> /\ selected_images = {} /\ fs = FilterStart

MainIdle ==
    /\ keep_every = 0 /\ offset = 0
    /\ image_files = <<>> /\ shots = <<>> /\ selected_shots = <<>>
    /\ selected_images_rel = {} /\ selected_images_names = {}
    /\ copy_idx = 0 /\ out_dirs = FALSE /\ out_images = {}
    /\ sparse_files = {} /\ out_sparse = {} /\ exit = "running"

InitShot ==
    /\ pc = "shot_call"
    /\ filename \in ShotInputs
    /\ ret = <<>>
    /\ FilterIdle
    /\ MainIdle

CallGetShotNumber ==
    /\ pc = "shot_call"
    /\ ret' = get_shot_number(filename)
    /\ pc' = "shot_ret"
    /\ UNCHANGED <<filename, filterVars, mainVars>>

NextShot == CallGetShotNumber

SpecShot == InitShot /\ [][NextShot]_vars

\* The file name is S ++ "_" ++ L ++ "." ++ ext: S is a file name part, the lens
\* suffix L holds no separator, ext is an extension
IsShotLensExt(fname, S) ==
    \E i, j \in DOMAIN fname :
        /\ i < j /\ fname[i] = "_" /\ fname[j] = "."
        /\ S = SubSeq(fname, 1, i - 1)
        /\ "/" \notin Range(S)
        /\ \A k \in (i + 1)..(j - 1) : fname[k] \notin {"_", "/"}
        /\ \A k \in (j + 1)..Len(fname) : fname[k] \notin {".", "/"}

\* C2, first half alone: get_shot_number returns S for every image named S_L.ext
ShotOfLensName ==
    pc = "shot_ret" =>
        \A n \in 0..Len(filename) :
            IsShotLensExt(filename, SubSeq(filename, 1, n)) => ret = SubSeq(filename, 1, n)

\* C2: get_shot_number returns S for every image named S_L.ext, and returns
\* IMG_0001 for IMG_0001.jpg (as the function's docstring says).
C2_GroupingCorrectness ==
    pc = "shot_ret" =>
        /\ \A n \in 0..Len(filename) :
              (/\ IsShotLensExt(filename, SubSeq(filename, 1, n))
               /\ filename # IMG_0001_jpg) => ret = SubSeq(filename, 1, n)
        /\ filename = IMG_0001_jpg => ret = IMG_0001


(***************************************************************************)
(* filter_images_txt                                                       *)
(***************************************************************************)
NameField == 10     \* NAME is the 10th field: parts[9]
EntryStride == 2    \* i += 2: each image has 2 lines

StartsWithHash(line) == line.hash

\* line.strip().split()
Parts(line) == line.toks

\* not line.strip()
IsBlank(line) == line.toks = <<>>

\* len(parts) >= 10
HasNameField(parts) == Len(parts) >= NameField

ImgNameWrongField(parts) == parts[NameField - 1]
\* img_name = parts[9]
ImgName(parts) == parts[NameField]

WriteHeaderOnly(ls, i, fout) == Append(fout, [src |-> i, as |-> "header"])
\* fout.write(line); if i + 1 < len(lines): fout.write(lines[i + 1])
WriteEntry(ls, i, fout) ==
    LET withHeader == Append(fout, [src |-> i, as |-> "header"])
    IN IF i + 1 < Len(ls)
       THEN Append(withHeader, [src |-> i + 1, as |-> "points"])
       ELSE withHeader

NextEntryByOne(i) == i + 1
\* i += 2
NextEntry(i) == i + EntryStride

\* One iteration of the while loop.  st.i is the 0-based index i, st.fout the
\* lines written so far, each by its source index and by the statement that
\* wrote it; st.heads are the indices parsed as image (header) lines.
FilterIter(ls, sel, st) ==
    LET line == ls[st.i + 1]
        parts == Parts(line)
    IN IF StartsWithHash(line)
       THEN [st EXCEPT !.fout = Append(@, [src |-> st.i, as |-> "comment"]),
                       !.i = @ + 1]
       ELSE IF IsBlank(line)
       THEN [st EXCEPT !.i = @ + 1]
       ELSE IF HasNameField(parts) /\ ImgName(parts) \in sel
       THEN [i |-> NextEntry(st.i),
             kept |-> st.kept + 1,
             fout |-> WriteEntry(ls, st.i, st.fout),
             heads |-> st.heads \cup {st.i}]
       ELSE [st EXCEPT !.i = NextEntry(@), !.heads = @ \cup {st.i}]

\* The whole call: the loop run until i >= len(lines)
RECURSIVE FilterLoop(_, _, _)
FilterLoop(ls, sel, st) ==
    IF st.i < Len(ls) THEN FilterLoop(ls, sel, FilterIter(ls, sel, st)) ELSE st

filter_images_txt(ls, sel) == FilterLoop(ls, sel, FilterStart)

\* The text of the destination file
DstLines == [k \in DOMAIN fs.fout |-> lines[fs.fout[k].src + 1]]

Tok(c) == <<c>>
Name_01_0 == <<"0", "1", "_", "0", ".", "p", "n", "g">>
Name_01_1 == <<"0", "1", "_", "1", ".", "p", "n", "g">>
Name_02_0 == <<"0", "2", "_", "0", ".", "p", "n", "g">>
Name_s_02_0 == <<"s", "/">> \o Name_02_0
Name_03 == <<"0", "3", ".", "j", "p", "g">>
Name_04_0_txt == <<"0", "4", "_", "0", ".", "t", "x", "t">>

CommentLine == [hash |-> TRUE, toks |-> <<Tok("#")>>]
BlankLine == [hash |-> FALSE, toks |-> <<>>]
HeaderPrefix ==
    <<Tok("1"), Tok("1"), Tok("0"), Tok("0"), Tok("0"), Tok("0"), Tok("0"), Tok("0"), Tok("1")>>
HeaderLine(name) == [hash |-> FALSE, toks |-> Append(HeaderPrefix, name)]
ShortHeaderLine == [hash |-> FALSE, toks |-> HeaderPrefix]
PointsLine == [hash |-> FALSE, toks |-> <<Tok("1"), Tok("2"), Tok("3")>>]

FilterNames == {Name_01_0, Name_s_02_0}

LineUniverse ==
    {CommentLine, BlankLine, ShortHeaderLine, PointsLine}
        \cup {HeaderLine(n) : n \in FilterNames}

RECURSIVE SeqsUpTo(_, _)
SeqsUpTo(S, n) ==
    IF n = 0 THEN {<<>>}
    ELSE LET shorter == SeqsUpTo(S, n - 1)
         IN shorter \cup {Append(s, x) : s \in {t \in shorter : Len(t) = n - 1},
                                         x \in S}

InitFilter ==
    /\ pc = "filter_loop"
    /\ lines \in SeqsUpTo(LineUniverse, MaxLines)
    /\ selected_images \in SUBSET FilterNames
    /\ fs = FilterStart
    /\ ShotIdle
    /\ MainIdle

FilterStep ==
    /\ pc = "filter_loop"
    /\ fs.i < Len(lines)
    /\ fs' = FilterIter(lines, selected_images, fs)
    /\ UNCHANGED <<pc, lines, selected_images, shotVars, mainVars>>

FilterReturn ==
    /\ pc = "filter_loop"
    /\ ~(fs.i < Len(lines))
    /\ pc' = "filter_done"
    /\ UNCHANGED <<filterVars, shotVars, mainVars>>

NextFilter == FilterStep \/ FilterReturn

SpecFilter == InitFilter /\ [][NextFilter]_vars


(***************************************************************************)
(* The pose file format, and the claims about filter_images_txt            *)
(***************************************************************************)
\* A line that can stand where an entry's first line is expected
IsEntryLine(line) == ~line.hash /\ line.toks # <<>>
\* IMAGE_ID QW QX QY QZ TX TY TZ CAMERA_ID NAME
IsGoodHeader(line) == IsEntryLine(line) /\ Len(line.toks) >= 10
IsShortHeader(line) == IsEntryLine(line) /\ Len(line.toks) < 10
\* A list of (X, Y, POINT3D_ID) triples, possibly empty
IsPointsLine(line) == ~line.hash /\ Len(line.toks) % 3 = 0

\* ls, from 0-based index i on, is made of comment lines and of two-line
\* entries; short says whether an entry's first line may have under 10 fields
RECURSIVE IsPairedFrom(_, _, _)
IsPairedFrom(ls, i, short) ==
    IF i >= Len(ls) THEN TRUE
    ELSE IF ls[i + 1].hash THEN IsPairedFrom(ls, i + 1, short)
    ELSE /\ i + 1 < Len(ls)
         /\ IF short THEN IsEntryLine(ls[i + 1]) ELSE IsGoodHeader(ls[i + 1])
         /\ IsPointsLine(ls[i + 2])
         /\ IsPairedFrom(ls, i + 2, short)

\* The 0-based indices of the entries' first lines in such a file
RECURSIVE HeaderPositions(_, _)
HeaderPositions(ls, i) ==
    IF i >= Len(ls) THEN {}
    ELSE IF ls[i + 1].hash THEN HeaderPositions(ls, i + 1)
    ELSE {i} \cup HeaderPositions(ls, i + 2)

WellFormedFile == IsPairedFrom(lines, 0, FALSE)
PairedFile == IsPairedFrom(lines, 0, TRUE)
Headers == HeaderPositions(lines, 0)
CommentPositions == {i \in 0..(Len(lines) - 1) : lines[i + 1].hash}
RetainedHeaders ==
    {h \in Headers : IsGoodHeader(lines[h + 1])
                     /\ lines[h + 1].toks[10] \in selected_images}

WrittenAs(role) == {fs.fout[k].src : k \in {j \in DOMAIN fs.fout : fs.fout[j].as = role}}
InSourceOrder == \A j, k \in DOMAIN fs.fout : j < k => fs.fout[j].src < fs.fout[k].src

\* C1: for a source file made of comment lines and header/continuation pairs
\* and any retained-name set, the destination holds exactly the entries whose
\* NAME (10th field) is retained, each header directly followed by its own
\* continuation line, and every comment line, all in the source's order.
C1_PairingPreservation ==
    (pc = "filter_done" /\ WellFormedFile) =>
        /\ InSourceOrder
        /\ WrittenAs("comment") = CommentPositions
        /\ WrittenAs("header") = RetainedHeaders
        /\ WrittenAs("points") = {h + 1 : h \in RetainedHeaders}
        /\ \A k \in DOMAIN fs.fout :
              fs.fout[k].as = "header" =>
                  /\ k + 1 \in DOMAIN fs.fout
                  /\ fs.fout[k + 1] = [src |-> fs.fout[k].src + 1, as |-> "points"]
        /\ Len(fs.fout) = Cardinality(CommentPositions) + 2 * Cardinality(RetainedHeaders)

\* C1's case: a dropped entry, then a comment, then a retained entry
C1_Witness ==
    /\ pc = "filter_done" /\ WellFormedFile
    /\ \E d \in Headers \ RetainedHeaders, c \in CommentPositions, r \in RetainedHeaders :
          d < c /\ c < r

\* C7: in a file of comment lines and two-line entries, an entry whose first
\* line has fewer than 10 fields adds nothing to the kept count, is not written,
\* and leaves the pairing aligned: the lines parsed as headers are exactly the
\* entries' first lines.  (The loop has no raising statement: parts[9] is read
\* only under len(parts) >= 10, so every run ends at the return.)
C7_MalformedEntryRecovery ==
    (pc = "filter_done" /\ PairedFile) =>
        /\ fs.heads = Headers
        /\ \A h \in Headers :
              IsShortHeader(lines[h + 1]) =>
                  \A k \in DOMAIN fs.fout : fs.fout[k].src \notin {h, h + 1}
        /\ fs.kept = Cardinality(RetainedHeaders)
        /\ fs.i = Len(lines)

\* C7's case: a short header, and a retained entry after it
C7_Witness ==
    /\ pc = "filter_done" /\ PairedFile
    /\ \E h \in Headers, r \in RetainedHeaders :
          IsShortHeader(lines[h + 1]) /\ h < r /\ r \in WrittenAs("header")

LastLineWrittenAsHeader == Len(lines) - 1 \in WrittenAs("header")
EntryLinesWritten == Cardinality({k \in DOMAIN fs.fout : fs.fout[k].as # "comment"})
HeaderLinesWritten == Cardinality({k \in DOMAIN fs.fout : fs.fout[k].as = "header"})

\* C10 as stated: for every source file the kept count is the number of header
\* lines written, and the destination holds 2 * kept lines besides the comment
\* lines copied from comment positions.
C10_KeptCountAsStated ==
    pc = "filter_done" =>
        /\ fs.kept = HeaderLinesWritten
        /\ EntryLinesWritten = 2 * fs.kept

\* C10 amended: the kept count is the number of header lines written, and the
\* destination holds 2 * kept lines besides the comment lines, less one when
\* the source's last line is a retained header, which has no line after it.
C10_KeptCount ==
    pc = "filter_done" =>
        /\ fs.kept = HeaderLinesWritten
        /\ EntryLinesWritten = 2 * fs.kept - (IF LastLineWrittenAsHeader THEN 1 ELSE 0)

\* C10's cases: a retained header on the last line after another retained
\* entry whose continuation line starts with the comment marker
C10_Witness ==
    /\ pc = "filter_done"
    /\ LastLineWrittenAsHeader
    /\ \E k \in DOMAIN fs.fout :
          fs.fout[k].as = "points" /\ lines[fs.fout[k].src + 1].hash


(***************************************************************************)
(* find_images, group_by_shot, main                                        *)
(***************************************************************************)
\* the rglob patterns of find_images, without the leading '*'
Extensions ==
    << <<".", "p", "n", "g">>, <<".", "j", "p", "g">>, <<".", "j", "p", "e", "g">>,
       <<".", "P", "N", "G">>, <<".", "J", "P", "G">>, <<".", "J", "P", "E", "G">> >>

\* the pattern that finds f (a name matches one pattern at most), 0 when none does
ExtIndex(f) ==
    LET hits == {k \in DOMAIN Extensions : EndsWith(Basename(f), Extensions[k])}
    IN IF hits = {} THEN 0 ELSE CHOOSE k \in hits : TRUE

\* files (relative to images_dir) that a source dataset may hold
DirUniverse == {Name_01_0, Name_01_1, Name_s_02_0, Name_03, Name_04_0_txt}

\* find_images(images_dir): pattern after pattern, the files of one pattern
\* in the order the file system lists them
FindImagesResults(dir) ==
    LET found == {f \in dir : ExtIndex(f) # 0}
        n == Cardinality(found)
    IN {q \in [1..n -> found] :
          /\ \A j, k \in 1..n : j # k => q[j] # q[k]
          /\ \A j, k \in 1..n : j < k => ExtIndex(q[j]) <= ExtIndex(q[k])}

ShotKeyStem(img) == SplitextRoot(Basename(img))
\* get_shot_number(img_path.name)
ShotKey(img) == get_shot_number(Basename(img))

\* group_by_shot: the dict as the list of its items in insertion order
RECURSIVE GroupFrom(_, _)
GroupFrom(files, dict) ==
    IF files = <<>> THEN dict
    ELSE LET img == Head(files)
             shot_num == ShotKey(img)
             at == {k \in DOMAIN dict : dict[k].key = shot_num}
         IN IF at = {}
            THEN GroupFrom(Tail(files), Append(dict, [key |-> shot_num, imgs |-> <<img>>]))
            ELSE LET k == CHOOSE j \in at : TRUE
                 IN GroupFrom(Tail(files), [dict EXCEPT ![k].imgs = Append(@, img)])

group_by_shot(files) == GroupFrom(files, <<>>)

Keys(dict) == [k \in DOMAIN dict |-> dict[k].key]
Lookup(dict, key) == (CHOOSE e \in Range(dict) : e.key = key).imgs

\* seq[start::step] for step # 0, as slice.indices() computes it (0-based)
SliceStart(n, start, step) ==
    LET s == IF start < 0 THEN start + n ELSE start
    IN IF step > 0
       THEN (IF s < 0 THEN 0 ELSE IF s >= n THEN n ELSE s)
       ELSE (IF s < 0 THEN -1 ELSE IF s >= n THEN n - 1 ELSE s)

SliceLen(n, start, step) ==
    LET s == SliceStart(n, start, step)
    IN IF step > 0
       THEN (IF s >= n THEN 0 ELSE (n - s + step - 1) \div step)
       ELSE (IF s <= -1 THEN 0 ELSE (s + 1 + (-step) - 1) \div (-step))

PySliceSkipFirst(seq, start, step) ==
    [k \in 1..SliceLen(Len(seq), start + 1, step) |->
        seq[SliceStart(Len(seq), start + 1, step) + (k - 1) * step + 1]]
PySlice(seq, start, step) ==
    [k \in 1..SliceLen(Len(seq), start, step) |->
        seq[SliceStart(Len(seq), start, step) + (k - 1) * step + 1]]

RelOnly(rel, names) == rel
\* selected_images_rel | selected_images_names
PoseNameSet(rel, names) == rel \cup names

\* for img_rel in sorted(selected_images_rel)
CopyList == Sorted(SetToSeq(selected_images_rel))

AfterCopyErrorContinue == "copy"
\* shutil.copy2 raises and nothing catches it: the process ends with a traceback
AfterCopyError == "exited"

\* what source/sparse may hold
SparseListings ==
    { {"cameras.txt", "images.txt", "points3D.txt"},
      {"cameras.bin", "images.bin", "points3D.bin"},
      {"cameras.txt", "cameras.bin", "images.txt", "images.bin",
       "points3D.txt", "points3D.ply"},
      {"images.txt"},
      {} }

CamerasFiles == <<"cameras.txt", "cameras.bin">>
PointsFiles == {"points3D.txt", "points3D.bin", "points3D.ply"}

\* the pose files of the main run: comment lines and two-line entries
PoseItems ==
    { <<CommentLine>>,
      <<HeaderLine(Name_01_0), PointsLine>>,
      <<HeaderLine(Name_02_0), BlankLine>>,
      <<HeaderLine(Name_s_02_0), PointsLine>> }

RECURSIVE Flatten(_)
Flatten(items) == IF items = <<>> THEN <<>> ELSE Head(items) \o Flatten(Tail(items))

PoseFiles == {Flatten(items) : items \in SeqsUpTo(PoseItems, MaxEntries)}

Strides == (-1)..MaxStride
Offsets == (-1)..MaxStride

Init ==
    /\ pc = "main"
    /\ ShotIdle
    /\ FilterIdle
    /\ MainIdle

\* parse_args and the checks of the source paths
ParseAndValidate ==
    /\ pc = "main"
    /\ \E n \in Strides, o \in Offsets : keep_every' = n /\ offset' = o
    /\ \E source_exists, images_dir_exists \in BOOLEAN :
          IF ~source_exists
          THEN pc' = "exited" /\ exit' = "source_missing"
          ELSE IF ~images_dir_exists
          THEN pc' = "exited" /\ exit' = "images_dir_missing"
          ELSE pc' = "scan" /\ exit' = exit
    /\ UNCHANGED <<shotVars, filterVars, image_files, shots, selected_shots,
                   selected_images_rel, selected_images_names, copy_idx, out_dirs,
                   out_images, sparse_files, out_sparse>>

FindImages ==
    /\ pc = "scan"
    /\ \E dir \in SUBSET DirUniverse : image_files' \in FindImagesResults(dir)
    /\ IF image_files' = <<>>
       THEN pc' = "exited" /\ exit' = "no_images"
       ELSE pc' = "select" /\ exit' = exit
    /\ UNCHANGED <<shotVars, filterVars, keep_every, offset, shots, selected_shots,
                   selected_images_rel, selected_images_names, copy_idx, out_dirs,
                   out_images, sparse_files, out_sparse>>

\* shots = group_by_shot(...); sorted_shots[args.offset::args.keep_every]
SelectShots ==
    /\ pc = "select"
    /\ shots' = group_by_shot(image_files)
    /\ IF keep_every = 0
       THEN /\ pc' = "exited" /\ exit' = "ValueError"
            /\ UNCHANGED selected_shots
       ELSE /\ selected_shots' = PySlice(Sorted(Keys(shots')), offset, keep_every)
            /\ pc' = "build" /\ exit' = exit
    /\ UNCHANGED <<shotVars, filterVars, keep_every, offset, image_files,
                   selected_images_rel, selected_images_names, copy_idx, out_dirs,
                   out_images, sparse_files, out_sparse>>

BuildSelection ==
    /\ pc = "build"
    /\ selected_images_rel' =
          UNION {Range(Lookup(shots, shot)) : shot \in Range(selected_shots)}
    /\ selected_images_names' = {Basename(img) : img \in selected_images_rel'}
    /\ pc' = "mkdirs"
    /\ UNCHANGED <<shotVars, filterVars, keep_every, offset, image_files, shots,
                   selected_shots, copy_idx, out_dirs, out_images, sparse_files,
                   out_sparse, exit>>

MakeDirs ==
    /\ pc = "mkdirs"
    /\ out_dirs' = TRUE
    /\ copy_idx' = 0
    /\ pc' = "copy"
    /\ UNCHANGED <<shotVars, filterVars, keep_every, offset, image_files, shots,
                   selected_shots, selected_images_rel, selected_images_names,
                   out_images, sparse_files, out_sparse, exit>>

CopyImage ==
    /\ pc = "copy"
    /\ copy_idx < Len(CopyList)
    /\ out_images' = out_images \cup {CopyList[copy_idx + 1]}
    /\ copy_idx' = copy_idx + 1
    /\ UNCHANGED <<pc, shotVars, filterVars, keep_every, offset, image_files, shots,
                   selected_shots, selected_images_rel, selected_images_names,
                   out_dirs, sparse_files, out_sparse, exit>>

CopyImageFails ==
    /\ pc = "copy"
    /\ copy_idx < Len(CopyList)
    /\ pc' = AfterCopyError
    /\ exit' = "CopyError"
    /\ UNCHANGED <<shotVars, filterVars, keep_every, offset, image_files, shots,
                   selected_shots, selected_images_rel, selected_images_names,
                   copy_idx, out_dirs, out_images, sparse_files, out_sparse>>

CopyDone ==
    /\ pc = "copy"
    /\ ~(copy_idx < Len(CopyList))
    /\ pc' = "sparse"
    /\ UNCHANGED <<shotVars, filterVars, mainVars>>

LocateSparse ==
    /\ pc = "sparse"
    /\ \E sparse_dir_exists \in BOOLEAN :
          IF sparse_dir_exists
          THEN /\ sparse_files' \in SparseListings
               /\ pc' = "cameras" /\ exit' = exit
          ELSE /\ pc' = "exited" /\ exit' = "no_sparse"
               /\ UNCHANGED sparse_files
    /\ UNCHANGED <<shotVars, filterVars, keep_every, offset, image_files, shots,
                   selected_shots, selected_images_rel, selected_images_names,
                   copy_idx, out_dirs, out_images, out_sparse>>

CopyCameras ==
    /\ pc = "cameras"
    /\ LET there == {k \in DOMAIN CamerasFiles : CamerasFiles[k] \in sparse_files}
       IN out_sparse' =
             IF there = {} THEN out_sparse
             ELSE out_sparse \cup {CamerasFiles[CHOOSE k \in there : \A j \in there : k <= j]}
    /\ pc' = "filter"
    /\ UNCHANGED <<shotVars, filterVars, keep_every, offset, image_files, shots,
                   selected_shots, selected_images_rel, selected_images_names,
                   copy_idx, out_dirs, out_images, sparse_files, exit>>

FilterPose ==
    /\ pc = "filter"
    /\ "images.txt" \in sparse_files
    /\ lines' \in PoseFiles
    /\ selected_images' = PoseNameSet(selected_images_rel, selected_images_names)
    /\ fs' = filter_images_txt(lines', selected_images')
    /\ out_sparse' = out_sparse \cup {"images.txt"}
    /\ pc' = "points"
    /\ UNCHANGED <<shotVars, keep_every, offset, image_files, shots,
                   selected_shots, selected_images_rel, selected_images_names,
                   copy_idx, out_dirs, out_images, sparse_files, exit>>

SkipPose ==
    /\ pc = "filter"
    /\ "images.txt" \notin sparse_files
    /\ pc' = "points"
    /\ UNCHANGED <<shotVars, filterVars, mainVars>>

CopyPoints ==
    /\ pc = "points"
    /\ out_sparse' = out_sparse \cup (PointsFiles \cap sparse_files)
    /\ pc' = "exited"
    /\ exit' = "done"
    /\ UNCHANGED <<shotVars, filterVars, keep_every, offset, image_files, shots,
                   selected_shots, selected_images_rel, selected_images_names,
                   copy_idx, out_dirs, out_images, sparse_files>>

Next ==
    \/ ParseAndValidate
    \/ FindImages
    \/ SelectShots
    \/ BuildSelection
    \/ MakeDirs
    \/ CopyImage
    \/ CopyImageFails
    \/ CopyDone
    \/ LocateSparse
    \/ CopyCameras
    \/ FilterPose
    \/ SkipPose
    \/ CopyPoints

Spec == Init /\ [][Next]_vars


(***************************************************************************)
(* Claims about main                                                       *)
(***************************************************************************)
\* selected_shots has been assigned
Selected ==
    \/ pc \in {"build", "mkdirs", "copy", "sparse", "cameras", "filter", "points"}
    \/ pc = "exited" /\ exit \in {"CopyError", "no_sparse", "done"}

\* the copy loop has run to its end
CopyPhaseDone ==
    \/ pc \in {"sparse", "cameras", "filter", "points"}
    \/ pc = "exited" /\ exit \in {"no_sparse", "done"}

PoseFiltered == exit = "done" /\ "images.txt" \in sparse_files

Discovered == Range(image_files)
ShotIds == {get_shot_number(Basename(f)) : f \in Discovered}

\* the ids of S in ascending lexicographic order
AscendingSeq(S) ==
    CHOOSE q \in [1..Cardinality(S) -> S] :
        \A j, k \in DOMAIN q : j < k => StrLess(q[j], q[k])

\* every step-th element of seq from 0-based index start on, 0 <= start, 1 <= step
EveryNth(seq, start, step) ==
    LET picked == {k \in 0..(Len(seq) - 1) : k >= start /\ (k - start) % step = 0}
    IN [j \in 1..Cardinality(picked) |-> seq[start + (j - 1) * step + 1]]

InvalidStrideOrOffset == keep_every < 1 \/ offset < 0 \/ offset >= keep_every

\* C3: with an invalid stride or offset (N < 1, or O outside 0 <= O < N) the
\* run aborts with non-zero status before any mutation: no output directory
\* is created, no image is copied, no pose or auxiliary file is written.
C3_InvalidStrideAborts ==
    (pc # "main" /\ InvalidStrideOrOffset) =>
        /\ ~out_dirs
        /\ out_images = {}
        /\ out_sparse = {}
        /\ exit \notin {"done", "no_sparse"}

\* C4: the selected shots are sorted(shot_ids)[O::N]: a function of the set of
\* shot ids, the offset and the stride alone, whatever order the images were
\* enumerated in; for 0 <= O and 1 <= N it is every Nth id of the ascending
\* list from index O on.
C4_SelectionDeterminism ==
    Selected =>
        /\ selected_shots = PySlice(AscendingSeq(ShotIds), offset, keep_every)
        /\ (offset >= 0 /\ keep_every >= 1) =>
              selected_shots = EveryNth(AscendingSeq(ShotIds), offset, keep_every)

\* C4's case: the images were enumerated with a later shot first, and the
\* stride skips a shot between two selected ones
C4_Witness ==
    /\ Selected
    /\ \E j, k \in DOMAIN shots : j < k /\ StrLess(shots[k].key, shots[j].key)
    /\ keep_every = 2 /\ offset = 0
    /\ Len(selected_shots) = 2

\* C5: once the copy phase has completed, the images of one shot are all in
\* the output image set or none of them is.
C5_MultiLensAtomicity ==
    CopyPhaseDone =>
        \A f, g \in Discovered :
            get_shot_number(Basename(f)) = get_shot_number(Basename(g)) =>
                (f \in out_images <=> g \in out_images)

\* C5's case: a two-lens shot copied whole next to a shot left out
C5_Witness ==
    /\ CopyPhaseDone
    /\ {Name_01_0, Name_01_1} \subseteq out_images
    /\ Discovered \ out_images # {}

CopiedNames == out_images \cup {Basename(f) : f \in out_images}

\* C6: after a completed run with a text pose file (comment lines and two-line
\* entries), an entry of the source is in the output pose file if and only if
\* its image name is the bare file name or the image-root-relative path of a
\* copied image.
C6_ReferentialConsistency ==
    PoseFiltered =>
        \A h \in Headers :
            (/\ h \in WrittenAs("header")
             /\ h + 1 \in WrittenAs("points"))
                <=> lines[h + 1].toks[10] \in CopiedNames

\* C6's case: an entry kept by the bare name of an image copied into a
\* subdirectory, next to an entry that is dropped
C6_Witness ==
    /\ PoseFiltered
    /\ Name_s_02_0 \in out_images
    /\ \E h \in WrittenAs("header") : lines[h + 1].toks[10] = Name_02_0
    /\ Headers \ WrittenAs("header") # {}

ExistingNames == Discovered \cup {Basename(f) : f \in Discovered}

\* the source lines (0-based indices) of the comments and of the entries whose
\* image exists, and the file made of them
ExistingIndices ==
    CommentPositions \cup
        UNION {{h, h + 1} : h \in {e \in Headers : lines[e + 1].toks[10] \in ExistingNames}}

RestrictedToExisting ==
    LET nth(j) == CHOOSE i \in ExistingIndices :
                      Cardinality({m \in ExistingIndices : m < i}) = j - 1
    IN [j \in 1..Cardinality(ExistingIndices) |-> lines[nth(j) + 1]]

\* C8: with stride 1 and offset 0 the output image set is the set of all
\* discovered images, and the filtered pose file is line for line the source
\* pose file restricted to the entries whose image exists in the image root.
C8_FullSelectionRoundTrip ==
    (exit = "done" /\ keep_every = 1 /\ offset = 0) =>
        /\ out_images = Discovered
        /\ "images.txt" \in sparse_files => DstLines = RestrictedToExisting

\* C8's case: a full selection of several images, a pose file with an entry
\* whose image exists and one whose image does not
C8_Witness ==
    /\ PoseFiltered /\ keep_every = 1 /\ offset = 0
    /\ Cardinality(out_images) >= 2
    /\ WrittenAs("header") # {}
    /\ Headers \ WrittenAs("header") # {}

\* C9: a failed image copy ends the run there: the images copied are those
\* before the failing one in copy order, the later ones are not copied, and
\* no pose file or auxiliary file is written.
C9_FailFastCopy ==
    exit = "CopyError" =>
        /\ pc = "exited"
        /\ copy_idx < Len(CopyList)
        /\ out_images = {CopyList[k] : k \in 1..copy_idx}
        /\ out_sparse = {}
        /\ fs = FilterStart

\* C9's case: the copy fails after one image was copied and with another
\* image still to copy after the failing one
C9_Witness ==
    /\ exit = "CopyError"
    /\ out_images # {}
    /\ copy_idx + 1 < Len(CopyList)

====
